---------------------------- MODULE Spec2Model ----------------------------
(***************************************************************************)
(* A model of nationbook.py, the stationery shop inventory.                *)
(*                                                                         *)
(* The program's state is st.session_state.stationery_inventory, a Python  *)
(* dict (insertion ordered) from item name to a record.  Each run of the   *)
(* script renders one page; a submitted form changes the dict and writes   *)
(* messages.  The variable out holds what the page function of the last    *)
(* run wrote (add_item, update_item or view_inventory, with the            *)
(* check_stock_balance they call); the navigation sidebar that main()      *)
(* draws before the page is not part of it.  Strings the code transforms   *)
(* (names, publishers, the status text) are sequences of one-character     *)
(* strings, so that strip(), title() and str.contains() are computed and   *)
(* not assumed.  Prices are IEEE-754 doubles, held as exact binary         *)
(* fixed-point numbers and rounded to 53 significant bits after every      *)
(* arithmetic operation.                                                   *)
(***************************************************************************)
EXTENDS Integers, Sequences, FiniteSets, TLC

VARIABLES stationery_inventory, out

vars == <<stationery_inventory, out>>

-----------------------------------------------------------------------------
(* Strings: str.strip() and str.title() on the ASCII letters and space.    *)

LowerLetters == <<"a","b","c","d","e","f","g","h","i","j","k","l","m",
                  "n","o","p","q","r","s","t","u","v","w","x","y","z">>
UpperLetters == <<"A","B","C","D","E","F","G","H","I","J","K","L","M",
                  "N","O","P","Q","R","S","T","U","V","W","X","Y","Z">>

IsLower(c) == \E i \in 1..Len(LowerLetters) : LowerLetters[i] = c
IsUpper(c) == \E i \in 1..Len(UpperLetters) : UpperLetters[i] = c
IsCased(c) == IsLower(c) \/ IsUpper(c)

ToUpper(c) ==
  IF IsLower(c)
  THEN UpperLetters[CHOOSE i \in 1..Len(LowerLetters) : LowerLetters[i] = c]
  ELSE c

ToLower(c) ==
  IF IsUpper(c)
  THEN LowerLetters[CHOOSE i \in 1..Len(UpperLetters) : UpperLetters[i] = c]
  ELSE c

IsSpace(c) == c = " "

RECURSIVE LStrip(_)
LStrip(s) ==
  IF s # <<>> /\ IsSpace(Head(s)) THEN LStrip(Tail(s)) ELSE s

RECURSIVE RStrip(_)
RStrip(s) ==
  IF s # <<>> /\ IsSpace(s[Len(s)]) THEN RStrip(SubSeq(s, 1, Len(s) - 1)) ELSE s

\* str.strip(): leading and trailing whitespace removed.
Strip(s) == RStrip(LStrip(s))

\* str.title(): a cased character is upper-cased when the character before
\* it is not cased (or there is none), lower-cased otherwise.
Title(s) ==
  [i \in 1..Len(s) |->
     IF i = 1 \/ ~IsCased(s[i - 1]) THEN ToUpper(s[i]) ELSE ToLower(s[i])]

\* st.text_input(...).strip().title()
Normalize(s) == Title(Strip(s))

-----------------------------------------------------------------------------
(* The dict: a sequence of <<key, value>> entries in insertion order.      *)

Keys(d) == {d[i][1] : i \in 1..Len(d)}

HasKey(d, k) == \E i \in 1..Len(d) : d[i][1] = k

IndexOf(d, k) == CHOOSE i \in 1..Len(d) : d[i][1] = k

\* d[k]
Get(d, k) == d[IndexOf(d, k)][2]

\* d[k] = v: an existing key keeps its place, a new key goes last.
DictSet(d, k, v) ==
  IF HasKey(d, k)
  THEN [d EXCEPT ![IndexOf(d, k)] = <<k, v>>]
  ELSE Append(d, <<k, v>>)

\* d.pop(k): the dict without k.
DictDel(d, k) ==
  LET i == IndexOf(d, k)
  IN  SubSeq(d, 1, i - 1) \o SubSeq(d, i + 1, Len(d))

-----------------------------------------------------------------------------
(* IEEE-754 doubles (the prices and the sums of price * quantity).  A      *)
(* non-negative double is held as the natural number value * 2^ScaleBits,  *)
(* written in binary, least significant bit first, without high zeros.     *)
(* Every value of the model is a multiple of 2^-ScaleBits below 2^1023, so *)
(* an operation's exact result rounds to nearest, ties to even, at         *)
(* Precision significant bits.                                             *)

Precision == 53
ScaleBits == 56

Zeros(n) == [i \in 1..n |-> 0]

RECURSIVE Canon(_)
Canon(n) ==
  IF n # <<>> /\ n[Len(n)] = 0 THEN Canon(SubSeq(n, 1, Len(n) - 1)) ELSE n

RECURSIVE BigAddC(_, _, _)
BigAddC(a, b, c) ==
  IF a = <<>> /\ b = <<>>
  THEN IF c = 1 THEN <<1>> ELSE <<>>
  ELSE LET x == IF a = <<>> THEN 0 ELSE Head(a)
           y == IF b = <<>> THEN 0 ELSE Head(b)
           s == x + y + c
       IN  <<s % 2>> \o BigAddC(IF a = <<>> THEN a ELSE Tail(a),
                                IF b = <<>> THEN b ELSE Tail(b),
                                s \div 2)

\* The exact sum of two naturals.
BigAdd(a, b) == BigAddC(a, b, 0)

\* Twice a natural.
Double2(n) == IF n = <<>> THEN <<>> ELSE <<0>> \o n

\* The exact product of a natural and a non-negative integer.
RECURSIVE BigMulInt(_, _)
BigMulInt(a, k) ==
  IF k = 0
  THEN <<>>
  ELSE IF k % 2 = 0
       THEN Double2(BigMulInt(a, k \div 2))
       ELSE BigAdd(a, Double2(BigMulInt(a, k \div 2)))

\* Round to nearest, ties to even, at Precision significant bits.
RoundDouble(n) ==
  IF Len(n) <= Precision
  THEN n
  ELSE LET d      == Len(n) - Precision
           kept   == SubSeq(n, d + 1, Len(n))
           half   == n[d] = 1
           sticky == \E i \in 1..(d - 1) : n[i] = 1
           odd    == n[d + 1] = 1
       IN  Zeros(d) \o (IF half /\ (sticky \/ odd) THEN BigAdd(kept, <<1>>) ELSE kept)

\* float + float
FAdd(a, b) == RoundDouble(BigAdd(a, b))

\* float * int (an int of this size converts to float exactly)
FMulInt(a, k) == RoundDouble(BigMulInt(a, k))

BitsOfHex(h) == <<h % 2, (h \div 2) % 2, (h \div 4) % 2, h \div 8>>

RECURSIVE HexBits(_)
HexBits(hs) == IF hs = <<>> THEN <<>> ELSE HexBits(Tail(hs)) \o BitsOfHex(Head(hs))

\* The double with the given significand (hexadecimal digits, most
\* significant first) times 2^(shift - ScaleBits).
Double(hs, shift) == Canon(Zeros(shift) \o HexBits(hs))

RECURSIVE BigToInt(_)
BigToInt(n) == IF n = <<>> THEN 0 ELSE Head(n) + 2 * BigToInt(Tail(n))

\* format(x, ".2f"): x correctly rounded (ties to even) to hundredths,
\* given as the number of hundredths.
FormatCents(x) ==
  LET n    == BigMulInt(x, 100)
      bit(i) == IF i <= Len(n) THEN n[i] ELSE 0
      q    == IF Len(n) > ScaleBits THEN SubSeq(n, ScaleBits + 1, Len(n)) ELSE <<>>
      half == bit(ScaleBits) = 1
      sticky == \E i \in 1..(ScaleBits - 1) : bit(i) = 1
      odd  == bit(ScaleBits + 1) = 1
  IN  BigToInt(IF half /\ (sticky \/ odd) THEN BigAdd(q, <<1>>) ELSE q)

\* The prices of the model: float("0.10"), float("0.20"), float("0.30"),
\* float("2.50").
Price010 == Double(<<1, 9, 9, 9, 9, 9, 9, 9, 9, 9, 9, 9, 9, 10>>, 0)
Price020 == Double(<<1, 9, 9, 9, 9, 9, 9, 9, 9, 9, 9, 9, 9, 10>>, 1)
Price030 == Double(<<1, 3, 3, 3, 3, 3, 3, 3, 3, 3, 3, 3, 3, 3>>, 2)
Price250 == Double(<<5>>, 55)

-----------------------------------------------------------------------------
(* Messages: what a run writes to the page.  A message is the call that    *)
(* wrote it (level), its f-string with the placeholders left in (fmt) and  *)
(* the values that fill them (args).                                       *)

Msg(level, fmt, args) == [level |-> level, fmt |-> fmt, args |-> args]

CATEGORIES == <<"Writing Instruments", "Paper Products", "Correction Tools",
                "Geometry Tools", "Files & Folders", "Office Supplies",
                "Art & Craft", "School Essentials">>

\* The messages of add_item, update_item and check_stock_balance.
AddedMsg(name) == Msg("success", "'{name}' added successfully!", <<name>>)
QuantityUpdatedMsg(name) == Msg("success", "Quantity updated for '{name}'!", <<name>>)
NameErrorMsg == Msg("error", "Please enter an item name", <<>>)
UpdatedMsg(selected_item) == Msg("success", "'{selected_item}' updated successfully!", <<selected_item>>)
NoItemsMsg == Msg("warning", "No items in inventory to update", <<>>)
LowStockWarning(item_name, quantity, min_stock) ==
  Msg("warning", "Low stock alert for {item_name}! Current: {quantity}, Minimum: {min_stock}",
      <<item_name, quantity, min_stock>>)

\* One record of the inventory.
ItemRecord(category, quantity, publisher, price, min_stock) ==
  [category |-> category, quantity |-> quantity, publisher |-> publisher,
   price |-> price, min_stock |-> min_stock]

\* check_stock_balance(item_name): the messages it writes.
check_stock_balance(inv, item_name) ==
  IF inv = <<>>
  THEN <<>>
  ELSE IF item_name # <<>>
       THEN LET item == Get(inv, item_name)
            IN  IF item.quantity < item.min_stock
                THEN <<LowStockWarning(item_name, item.quantity, item.min_stock)>>
                ELSE <<>>
       ELSE LET low == SelectSeq(inv, LAMBDA e : e[2].quantity < e[2].min_stock)
            IN  IF low # <<>>
                THEN <<Msg("sidebar.error", "Low Stock Alert!", <<>>)>>
                     \o [i \in 1..Len(low) |-> Msg("sidebar.write", "- {item}", <<low[i][1]>>)]
                ELSE <<>>

\* Mutant of PublisherInput: the publisher is stored as entered.
PublisherInputRaw(text) == text

\* publisher = st.text_input("Publisher/Brand").strip().title()
PublisherInput(text) == Normalize(text)

\* Mutant of NameGiven: the blank name is accepted.
NameGivenAlways(name) == TRUE

\* if name:
NameGiven(name) == name # <<>>

\* Mutant of AddQuantity: the quantity is replaced by the submitted one.
AddQuantityOverwrites(old, quantity) == quantity

\* Mutant of AddQuantity: the submitted quantity is taken off.
AddQuantitySubtracts(old, quantity) == old - quantity

\* stationery_inventory[name]["quantity"] += quantity
AddQuantity(old, quantity) == old + quantity

\* add_item() with the form submitted: the inventory and the messages after.
add_item(inv, name_text, category, publisher_text, quantity, price, min_stock) ==
  LET name      == Normalize(name_text)
      publisher == PublisherInput(publisher_text)
  IN  IF NameGiven(name)
      THEN LET inv2 == IF HasKey(inv, name)
                       THEN DictSet(inv, name,
                                    [Get(inv, name) EXCEPT
                                       !.quantity = AddQuantity(@, quantity)])
                       ELSE DictSet(inv, name,
                                    ItemRecord(category, quantity, publisher, price, min_stock))
               msg  == IF HasKey(inv, name)
                       THEN QuantityUpdatedMsg(name)
                       ELSE AddedMsg(name)
           IN  [inventory |-> inv2, out |-> <<msg>> \o check_stock_balance(inv2, name)]
      ELSE [inventory |-> inv, out |-> <<NameErrorMsg>>]

\* Mutant of Rekey: the record is copied to the new key and the old key stays.
RekeyKeepsOld(inv, selected_item, new_name) ==
  DictSet(inv, new_name, Get(inv, selected_item))

\* stationery_inventory[new_name] = stationery_inventory.pop(selected_item)
Rekey(inv, selected_item, new_name) ==
  DictSet(DictDel(inv, selected_item), new_name, Get(inv, selected_item))

\* update_item() with selected_item chosen and the form submitted.
update_item(inv, selected_item, name_text, new_category, new_publisher, new_price, new_quantity, new_min_stock) ==
  IF inv = <<>>
  THEN [inventory |-> inv, out |-> <<NoItemsMsg>>]
  ELSE IF selected_item = <<>>
       THEN [inventory |-> inv, out |-> <<>>]
       ELSE LET new_name == Normalize(name_text)
                moved    == IF new_name # selected_item
                            THEN Rekey(inv, selected_item, new_name)
                            ELSE inv
                inv2     == DictSet(moved, new_name,
                                    ItemRecord(new_category, new_quantity, new_publisher,
                                               new_price, new_min_stock))
            IN  [inventory |-> inv2,
                 out |-> <<UpdatedMsg(new_name)>> \o check_stock_balance(inv2, new_name)]

\* The text of the Status column.
StatusAdequate == <<"(green circle)", " ", "A", "d", "e", "q", "u", "a", "t", "e">>
StatusLowStock == <<"(red circle)", " ", "L", "o", "w", " ", "S", "t", "o", "c", "k">>

\* Series.str.contains(pat) for a pattern without regex metacharacters.
Contains(s, pat) ==
  \E i \in 1..(Len(s) - Len(pat) + 1) : SubSeq(s, i, i + Len(pat) - 1) = pat

\* Mutant of Status: a quantity equal to min_stock counts as low.
StatusStrict(quantity, min_stock) ==
  IF quantity > min_stock THEN StatusAdequate ELSE StatusLowStock

\* "Adequate" if row['quantity'] >= row['min_stock'] else "Low Stock"
Status(quantity, min_stock) ==
  IF quantity >= min_stock THEN StatusAdequate ELSE StatusLowStock

\* One row of the DataFrame, with its Status.
Row(entry) ==
  [Name |-> entry[1], Category |-> entry[2].category, Brand |-> entry[2].publisher,
   Price |-> entry[2].price, Quantity |-> entry[2].quantity,
   MinStock |-> entry[2].min_stock,
   Status |-> Status(entry[2].quantity, entry[2].min_stock)]

\* The choices of the "Filter by Category" box.
CategoryChoices(inv) == {"All"} \cup {inv[i][2].category : i \in 1..Len(inv)}

StatusChoices == {"All", "Adequate", "Low Stock"}

\* The DataFrame after the two filters.
filtered_df(inv, filter_category, filter_status) ==
  LET df0 == [i \in 1..Len(inv) |-> Row(inv[i])]
      df1 == IF filter_category # "All"
             THEN SelectSeq(df0, LAMBDA r : r.Category = filter_category)
             ELSE df0
  IN  IF filter_status # "All"
      THEN LET status_filter == filter_status = "Adequate"
           IN  SelectSeq(df1, LAMBDA r :
                 Contains(r.Status, IF status_filter THEN <<"(green circle)">> ELSE <<"(red circle)">>))
      ELSE df1

\* Series.sum() of integers.
RECURSIVE IntSum(_)
IntSum(xs) == IF xs = <<>> THEN 0 ELSE Head(xs) + IntSum(Tail(xs))

\* Series.sum() of doubles: fewer than eight values are added in order.
RECURSIVE FloatSumFrom(_, _)
FloatSumFrom(acc, xs) ==
  IF xs = <<>> THEN acc ELSE FloatSumFrom(FAdd(acc, Head(xs)), Tail(xs))

FloatSum(xs) == FloatSumFrom(<<>>, xs)

\* The statistics of the rows shown.
statistics(df) ==
  [total_items     |-> Len(df),
   total_quantity  |-> IntSum([i \in 1..Len(df) |-> df[i].Quantity]),
   total_value     |-> FloatSum([i \in 1..Len(df) |-> FMulInt(df[i].Price, df[i].Quantity)]),
   low_stock_items |-> Len(SelectSeq(df, LAMBDA r : r.Status = StatusLowStock))]

\* view_inventory() with the two filters chosen: the messages it writes.
view_inventory(inv, filter_category, filter_status) ==
  IF inv = <<>>
  THEN <<Msg("info", "No items in stock.", <<>>)>>
  ELSE LET df == filtered_df(inv, filter_category, filter_status)
           st == statistics(df)
       IN  <<Msg("dataframe", "st.dataframe", <<filter_category, filter_status, df>>),
             Msg("metric", "Total Items", <<st.total_items>>),
             Msg("metric", "Total Quantity", <<st.total_quantity>>),
             Msg("metric", "Total Value", <<FormatCents(st.total_value)>>),
             Msg("metric", "Low Stock Items", <<st.low_stock_items>>)>>

-----------------------------------------------------------------------------
(* The inputs.  A form is what the user enters beside the name and the     *)
(* quantity: category, publisher, price and minimum stock level.           *)

MaxQuantity == 2
MaxMinStock == 2
ScenarioMaxQuantity == 13

Form(category, publisher, price, min_stock) ==
  [category |-> category, publisher |-> publisher, price |-> price,
   min_stock |-> min_stock]

Pen    == <<"P", "e", "n">>
Ink    == <<"I", "n", "k">>
Pencil == <<"P", "e", "n", "c", "i", "l">>

\* Spec: two names (one in two spellings) and a blank one.
NameTexts == {<<" ">>, <<"p", "e", "n">>, <<" ", "P", "E", "N", " ">>, <<"i", "n", "k">>}

Forms == {Form(CATEGORIES[1], <<"a", "b", "c">>, Price250, MaxMinStock),
          Form(CATEGORIES[2], <<"X", "y", "z">>, Price010, 0)}

Quantities == 0..MaxQuantity

\* SpecScenario: the values of the example scenario and a second item.
ScenarioForm == Form(CATEGORIES[1], <<"a", "b", "c">>, Price250, 5)

\* The update form as pre-filled from the stored record.
ScenarioKeptForm == Form(CATEGORIES[1], <<"A", "b", "c">>, Price250, 5)

ScenarioNameTexts == {<<"p", "e", "n", "c", "i", "l">>, Pencil, <<"e", "r", "a", "s", "e", "r">>}

ScenarioQuantities == {10, 3, 2}

\* SpecView: three items, three prices, two categories; each submission
\* is a name with the form entered for it.
ViewFormA == Form(CATEGORIES[1], <<"A", "b">>, Price010, MaxMinStock)
ViewFormB == Form(CATEGORIES[2], <<"A", "b">>, Price020, MaxMinStock)
ViewFormC == Form(CATEGORIES[2], <<"A", "b">>, Price030, 0)

ViewSubmissions == {<<<<"p", "e", "n">>, ViewFormA>>, <<<<"p", "e", "n">>, ViewFormC>>,
                    <<<<"i", "n", "k">>, ViewFormB>>, <<<<"c", "a", "p">>, ViewFormC>>}

ViewQuantities == {1}

NoQuantityAbove(inv, max) == \A i \in 1..Len(inv) : inv[i][2].quantity <= max

Init ==
  /\ stationery_inventory = <<>>
  /\ out = <<>>

\* One run of the "Add New Item" page with the form submitted.
AddStep(n, f, q) ==
  LET r == add_item(stationery_inventory, n, f.category, f.publisher, q, f.price, f.min_stock)
  IN  /\ stationery_inventory' = r.inventory
      /\ out' = r.out

\* One run of the "Update Item" page with s selected and the form submitted
\* (the page shows no form when s is the empty string).
UpdateStep(s, n, f, q) ==
  LET r == update_item(stationery_inventory, s, n, f.category, f.publisher, f.price, q, f.min_stock)
  IN  /\ stationery_inventory' = r.inventory
      /\ out' = r.out

\* One run of the "View Inventory" page with the two filters chosen.
ViewStep(fc, fs) ==
  /\ out' = view_inventory(stationery_inventory, fc, fs)
  /\ UNCHANGED stationery_inventory

AddItem ==
  \E n \in NameTexts, f \in Forms, q \in Quantities :
    /\ AddStep(n, f, q)
    /\ NoQuantityAbove(stationery_inventory', MaxQuantity)

\* The "Update Item" page: its warning while there is nothing to update,
\* and afterwards the form of the selected item, submitted.
UpdateItem ==
  \/ /\ stationery_inventory = <<>>
     /\ out' = update_item(stationery_inventory, <<>>, <<>>, CATEGORIES[1], <<>>, <<>>, 0, 0).out
     /\ UNCHANGED stationery_inventory
  \/ \E s \in Keys(stationery_inventory), n \in NameTexts, f \in Forms, q \in Quantities :
       UpdateStep(s, n, f, q)

Next == AddItem \/ UpdateItem

Spec == Init /\ [][Next]_vars

ScenarioAdd ==
  \E n \in ScenarioNameTexts, q \in ScenarioQuantities :
    /\ AddStep(n, ScenarioForm, q)
    /\ NoQuantityAbove(stationery_inventory', ScenarioMaxQuantity)

ScenarioUpdate ==
  \E s \in Keys(stationery_inventory), n \in ScenarioNameTexts,
     f \in {ScenarioForm, ScenarioKeptForm}, q \in ScenarioQuantities :
    UpdateStep(s, n, f, q)

ScenarioNext == ScenarioAdd \/ ScenarioUpdate

SpecScenario == Init /\ [][ScenarioNext]_vars

ViewAdd ==
  \E nf \in ViewSubmissions, q \in ViewQuantities :
    /\ AddStep(nf[1], nf[2], q)
    /\ NoQuantityAbove(stationery_inventory', MaxQuantity)

ViewInventory ==
  \E fc \in CategoryChoices(stationery_inventory), fs \in StatusChoices :
    ViewStep(fc, fs)

ViewNext == ViewAdd \/ ViewInventory

SpecView == Init /\ [][ViewNext]_vars

-----------------------------------------------------------------------------
(* The claims.                                                             *)

\* The record under key k after a step is the record before it with q added
\* to its quantity and nothing else changed.
OnlyQuantityAdded(before, after, q) ==
  /\ after.quantity = before.quantity + q
  /\ after.category = before.category
  /\ after.publisher = before.publisher
  /\ after.price = before.price
  /\ after.min_stock = before.min_stock

\* C1: every add_item step whose normalized name is already a key adds the
\* submitted quantity to that record's quantity and changes nothing else:
\* not its other fields, not the keys, not any other record.
C1_AddExistingOnlyAddsQuantity ==
  [][\A n \in NameTexts, f \in Forms, q \in Quantities :
       (AddStep(n, f, q) /\ HasKey(stationery_inventory, Normalize(n))) =>
         /\ Len(stationery_inventory') = Len(stationery_inventory)
         /\ \A i \in 1..Len(stationery_inventory) :
              /\ stationery_inventory'[i][1] = stationery_inventory[i][1]
              /\ IF stationery_inventory[i][1] = Normalize(n)
                 THEN OnlyQuantityAdded(stationery_inventory[i][2],
                                        stationery_inventory'[i][2], q)
                 ELSE stationery_inventory'[i][2] = stationery_inventory[i][2]]_vars

\* C2 as claimed: add_item with a non-empty normalized name that is not yet
\* a key appends one record holding the submitted category, publisher (as
\* entered), price, quantity and min_stock, and changes no other record.
C2_AddNewStoresSubmittedFields ==
  [][\A n \in NameTexts, f \in Forms, q \in Quantities :
       (/\ AddStep(n, f, q)
        /\ Normalize(n) # <<>>
        /\ ~HasKey(stationery_inventory, Normalize(n))) =>
         stationery_inventory' =
           Append(stationery_inventory,
                  <<Normalize(n), ItemRecord(f.category, q, f.publisher, f.price, f.min_stock)>>)]_vars

\* C2 as amended: in every reachable state, add_item with a non-empty
\* normalized name that is not yet a key appends one record holding the
\* submitted category, price, quantity and min_stock and the publisher
\* trimmed and title-cased; every record already there is unchanged.
C2_AddNewStoresNormalizedPublisher ==
  \A n \in NameTexts, f \in Forms, q \in Quantities :
    LET r == add_item(stationery_inventory, n, f.category, f.publisher, q, f.price, f.min_stock)
    IN  (Normalize(n) # <<>> /\ ~HasKey(stationery_inventory, Normalize(n))) =>
          /\ r.inventory =
               Append(stationery_inventory,
                      <<Normalize(n),
                        ItemRecord(f.category, q, Normalize(f.publisher), f.price, f.min_stock)>>)
          /\ r.out[1] = AddedMsg(Normalize(n))

\* C2 witness: "ink" has just been added after another item, and its
\* publisher "abc" is stored as "Abc".
C2_Witness ==
  /\ Len(stationery_inventory) = 2
  /\ stationery_inventory[2][1] = Ink
  /\ stationery_inventory[2][2].publisher = <<"A", "b", "c">>
  /\ out # <<>>
  /\ out[1] = AddedMsg(Ink)

\* Names that are empty after normalization.
BlankTexts == {<<>>, <<" ">>, <<" ", " ">>}

\* C3: in every reachable state, add_item with a name that is empty after
\* normalization writes the one error message and leaves the inventory as
\* it was; and after such a run the add form can be submitted again.
C3_BlankNameRejected ==
  /\ \A n \in BlankTexts, f \in Forms, q \in Quantities :
       LET r == add_item(stationery_inventory, n, f.category, f.publisher, q, f.price, f.min_stock)
       IN  /\ r.inventory = stationery_inventory
           /\ r.out = <<NameErrorMsg>>
  /\ (out = <<NameErrorMsg>>) => ENABLED AddItem

\* C3 witness: the last run reported the blank name, with items in stock.
C3_Witness ==
  /\ out = <<NameErrorMsg>>
  /\ stationery_inventory # <<>>

\* C4: in every reachable state, update_item submitted for key s with a
\* normalized new name other than s removes s, puts the submitted fields
\* under the new name, keeps the number of records when the new name was
\* not a key and lowers it by one when it was, and leaves every record
\* under a third key unchanged.  (The form exists only for a non-empty s.)
C4_RenameMovesRecord ==
  \A s \in Keys(stationery_inventory) \ {<<>>}, n \in NameTexts, f \in Forms, q \in Quantities :
    LET new == Normalize(n)
        r   == update_item(stationery_inventory, s, n, f.category, f.publisher, f.price, q, f.min_stock)
    IN  new # s =>
          /\ ~HasKey(r.inventory, s)
          /\ HasKey(r.inventory, new)
          /\ Get(r.inventory, new) = ItemRecord(f.category, q, f.publisher, f.price, f.min_stock)
          /\ Cardinality(Keys(r.inventory)) = Len(r.inventory)
          /\ Len(r.inventory) = IF HasKey(stationery_inventory, new)
                                THEN Len(stationery_inventory) - 1
                                ELSE Len(stationery_inventory)
          /\ \A k \in Keys(stationery_inventory) \ {s, new} :
               /\ HasKey(r.inventory, k)
               /\ Get(r.inventory, k) = Get(stationery_inventory, k)
          /\ Keys(r.inventory) = (Keys(stationery_inventory) \ {s}) \cup {new}

\* C4 witness: the last run was an update whose resulting key is the empty
\* string, which only a rename produces, and another record is in stock.
C4_Witness ==
  /\ Len(stationery_inventory) = 2
  /\ stationery_inventory[1][1] = Pen
  /\ stationery_inventory[2][1] = <<>>
  /\ out # <<>>
  /\ out[1] = UpdatedMsg(<<>>)

\* C5: every record has quantity >= 0 and min_stock >= 0.
C5_NeverNegative ==
  \A i \in 1..Len(stationery_inventory) :
    /\ stationery_inventory[i][2].quantity >= 0
    /\ stationery_inventory[i][2].min_stock >= 0

\* C5 witness: a second add has just raised a quantity to the largest one.
C5_Witness ==
  /\ out # <<>>
  /\ out[1] = QuantityUpdatedMsg(Pen)
  /\ Get(stationery_inventory, Pen).quantity = MaxQuantity

\* C6: after every add or update that succeeded, if the record under the
\* resulting key has quantity < min_stock then the run's messages hold the
\* low-stock warning with that key, that quantity and that min_stock.
C6_LowStockWarned ==
  (out # <<>> /\ out[1].level = "success") =>
    LET k    == out[1].args[1]
        item == Get(stationery_inventory, k)
    IN  item.quantity < item.min_stock =>
          \E j \in 2..Len(out) : out[j] = LowStockWarning(k, item.quantity, item.min_stock)

\* C10: every key of the inventory is a non-empty normalized name.
C10_KeysNonEmpty ==
  \A k \in Keys(stationery_inventory) : k # <<>> /\ Normalize(k) = k

\* The names of the rows of a DataFrame, and of the entries of a dict.
RowNames(df) == [i \in 1..Len(df) |-> df[i].Name]
EntryNames(entries) == [i \in 1..Len(entries) |-> entries[i][1]]

CategoriesPresent ==
  SelectSeq(CATEGORIES, LAMBDA c :
    \E i \in 1..Len(stationery_inventory) : stationery_inventory[i][2].category = c)

\* The statistics view_inventory computes with the category filter c.
StatsOf(c) == statistics(filtered_df(stationery_inventory, c, "All"))

RECURSIVE BigSum(_)
BigSum(xs) == IF xs = <<>> THEN <<>> ELSE BigAdd(Head(xs), BigSum(Tail(xs)))

Reverse(xs) == [i \in 1..Len(xs) |-> xs[Len(xs) + 1 - i]]

\* The three whole-number statistics are additive over the categories.
CountsAdditive ==
  LET cs == CategoriesPresent
  IN  /\ StatsOf("All").total_items = IntSum([i \in 1..Len(cs) |-> StatsOf(cs[i]).total_items])
      /\ StatsOf("All").total_quantity =
           IntSum([i \in 1..Len(cs) |-> StatsOf(cs[i]).total_quantity])
      /\ StatsOf("All").low_stock_items =
           IntSum([i \in 1..Len(cs) |-> StatsOf(cs[i]).low_stock_items])

\* The total value of "All" is the sum of the categories' total values:
\* their exact sum, or their floating-point sum in either order.
ValueAdditive ==
  LET cs     == CategoriesPresent
      values == [i \in 1..Len(cs) |-> StatsOf(cs[i]).total_value]
      total  == StatsOf("All").total_value
  IN  \/ total = BigSum(values)
      \/ total = FloatSum(values)
      \/ total = FloatSum(Reverse(values))

C8_CountsAndPrintedValueAdditive ==
  LET cs == CategoriesPresent
  IN  stationery_inventory # <<>> =>
        /\ CountsAdditive
        /\ FormatCents(StatsOf("All").total_value) =
             IntSum([i \in 1..Len(cs) |-> FormatCents(StatsOf(cs[i]).total_value)])

\* The inventory after each step of the example scenario.
ScenarioAfterAdd == <<<<Pencil, ItemRecord(CATEGORIES[1], 10, <<"A", "b", "c">>, Price250, 5)>>>>
ScenarioAfterSecondAdd == <<<<Pencil, ItemRecord(CATEGORIES[1], 13, <<"A", "b", "c">>, Price250, 5)>>>>
ScenarioAfterUpdate == <<<<Pencil, ItemRecord(CATEGORIES[1], 2, <<"A", "b", "c">>, Price250, 5)>>>>

\* C9: the example scenario.  From the empty inventory, adding "pencil" with
\* quantity 10 and min_stock 5 gives the one record "Pencil", Adequate, and
\* no warning; adding it again with quantity 3 gives quantity 13, still one
\* record, Adequate, no warning; updating it then to quantity 2 gives Low
\* Stock and the warning naming "Pencil", 2 and 5.
C9_ExampleScenario ==
  [][/\ (/\ stationery_inventory = <<>>
         /\ AddStep(<<"p", "e", "n", "c", "i", "l">>, ScenarioForm, 10)) =>
          /\ stationery_inventory' = ScenarioAfterAdd
          /\ Row(stationery_inventory'[1]).Status = StatusAdequate
          /\ out' = <<AddedMsg(Pencil)>>
     /\ (/\ stationery_inventory = ScenarioAfterAdd
         /\ AddStep(<<"p", "e", "n", "c", "i", "l">>, ScenarioForm, 3)) =>
          /\ stationery_inventory' = ScenarioAfterSecondAdd
          /\ Row(stationery_inventory'[1]).Status = StatusAdequate
          /\ out' = <<QuantityUpdatedMsg(Pencil)>>
     /\ (/\ stationery_inventory = ScenarioAfterSecondAdd
         /\ UpdateStep(Pencil, Pencil, ScenarioKeptForm, 2)) =>
          /\ stationery_inventory' = ScenarioAfterUpdate
          /\ Row(stationery_inventory'[1]).Status = StatusLowStock
          /\ out' = <<UpdatedMsg(Pencil), LowStockWarning(Pencil, 2, 5)>>]_vars

\* C9 witness: the state at the end of the scenario.
C9_Witness ==
  /\ stationery_inventory = ScenarioAfterUpdate
  /\ out = <<UpdatedMsg(Pencil), LowStockWarning(Pencil, 2, 5)>>

=============================================================================
